---------------------------- MODULE Spec2Model ----------------------------
(***************************************************************************)
(* A model of the T81Lang CLI compiler                                     *)
(* (legacy/hanoivm/src/t81lang_compiler/t81_compile.py): the tokenizer,    *)
(* the token-window parsers, the TISC code generator, the process-wide     *)
(* entropy log and the .cweb module descriptor.                            *)
(*                                                                         *)
(* Conventions.  A Python str is a sequence of one-character strings, so   *)
(* that the conversions the code applies (float(), repr of a float,        *)
(* str.strip, str.upper, the regular expressions) are computed character   *)
(* by character.  A Python list is a sequence; indexes held in variables   *)
(* are Python's (0-based) and are read through At and Slice.  None is the  *)
(* empty sequence and a present optional value v is <<v>>.  An exception   *)
(* is the name of its class; "none" is normal completion.                  *)
(***************************************************************************)
EXTENDS Integers, Sequences, FiniteSets, TLC

\* ------------------------------------------------------------------------
\* Bounds of the model
\* ------------------------------------------------------------------------
MaxOps == 3
MaxParamLen == 6
MaxStmts == 2
MaxUnits == 2

\* ------------------------------------------------------------------------
\* Python values
\* ------------------------------------------------------------------------
None == <<>>
Some(v) == <<v>>
IsNone(o) == o = <<>>
Val(o) == o[1]

At(s, k) == s[k + 1]
HasIndex(s, k) == 0 <= k /\ k < Len(s)

Min(a, b) == IF a <= b THEN a ELSE b
Max(a, b) == IF a >= b THEN a ELSE b

\* s[a:b] for 0 <= a and any b (a negative b counts from the end).
Slice(s, a, b) ==
  LET hi == Min(IF b < 0 THEN Max(Len(s) + b, 0) ELSE b, Len(s))
  IN  IF a >= hi THEN <<>> ELSE SubSeq(s, a + 1, hi)

\* s.index(x): the first index holding x, -1 standing for ValueError.
Index(s, x) ==
  IF \E k \in 1..Len(s) : s[k] = x
  THEN (CHOOSE k \in 1..Len(s) : s[k] = x /\ \A m \in 1..(k - 1) : s[m] # x) - 1
  ELSE -1

RECURSIVE Concat(_)
Concat(ss) == IF ss = <<>> THEN <<>> ELSE Head(ss) \o Concat(Tail(ss))

\* sep.join(parts)
RECURSIVE Join(_, _)
Join(sep, parts) ==
  IF parts = <<>> THEN <<>>
  ELSE IF Len(parts) = 1 THEN parts[1]
  ELSE parts[1] \o sep \o Join(sep, Tail(parts))

IsPrefix(s, t) == Len(s) <= Len(t) /\ SubSeq(t, 1, Len(s)) = s

\* ------------------------------------------------------------------------
\* Characters
\* ------------------------------------------------------------------------
Ascii ==
  << " ", "!", "\"", "#", "$", "%", "&", "'", "(", ")", "*", "+", ",", "-", ".", "/",
     "0", "1", "2", "3", "4", "5", "6", "7", "8", "9", ":", ";", "<", "=", ">", "?",
     "@", "A", "B", "C", "D", "E", "F", "G", "H", "I", "J", "K", "L", "M", "N", "O",
     "P", "Q", "R", "S", "T", "U", "V", "W", "X", "Y", "Z", "[", "\\", "]", "^", "_",
     "GRAVE", "a", "b", "c", "d", "e", "f", "g", "h", "i", "j", "k", "l", "m", "n", "o",
     "p", "q", "r", "s", "t", "u", "v", "w", "x", "y", "z", "{", "|", "}", "~" >>

\* ord(c) for the printable ASCII characters (code 96 is named, not written)
Ord(c) == 31 + (CHOOSE k \in 1..Len(Ascii) : Ascii[k] = c)
Chr(n) == Ascii[n - 31]

Digits == {"0", "1", "2", "3", "4", "5", "6", "7", "8", "9"}

\* str.upper(), character by character
Upper(s) ==
  [k \in 1..Len(s) |->
     IF Ord(s[k]) >= Ord("a") /\ Ord(s[k]) <= Ord("z") THEN Chr(Ord(s[k]) - 32) ELSE s[k]]

\* str.strip(chars) for a single character
RECURSIVE LStrip(_, _)
LStrip(s, c) == IF s # <<>> /\ Head(s) = c THEN LStrip(Tail(s), c) ELSE s
RECURSIVE RStrip(_, _)
RStrip(s, c) ==
  IF s # <<>> /\ s[Len(s)] = c THEN RStrip(SubSeq(s, 1, Len(s) - 1), c) ELSE s
Strip(s, c) == RStrip(LStrip(s, c), c)

\* float(s) for the decimal literals "digits.digits": the value is kept exactly, as
\* its integer digits without leading zeros and its fraction digits without
\* trailing zeros.  Any other lexeme of the model's alphabet raises ValueError.
IsFloatLiteral(s) ==
  \E d \in 2..(Len(s) - 1) :
     /\ s[d] = "."
     /\ \A k \in 1..Len(s) : k # d => s[k] \in Digits
float(s) ==
  LET d == CHOOSE d \in 2..(Len(s) - 1) : s[d] = "."
  IN  [ip |-> LStrip(SubSeq(s, 1, d - 1), "0"),
       fp |-> RStrip(SubSeq(s, d + 1, Len(s)), "0")]
\* bool(x) of a float, and of a str
FloatTruthy(x) == x.ip # <<>> \/ x.fp # <<>>
\* repr(x) of a float, as an f-string renders it
FloatStr(x) ==
  (IF x.ip = <<>> THEN <<"0">> ELSE x.ip) \o <<".">> \o
  (IF x.fp = <<>> THEN <<"0">> ELSE x.fp)

\* ------------------------------------------------------------------------
\* Token specs (t81_compile.py 10-33)
\* ------------------------------------------------------------------------
\* A pattern is a sequence of items; an item is a character class, given by its
\* ranges of code points as written in the source, and a quantifier: "one", "plus"
\* (one or more, greedy) or "star" (zero or more, greedy).
Rng(a, b) == <<Ord(a), Ord(b)>>
Lit(c) == [ranges |-> <<Rng(c, c)>>, quant |-> "one"]
Cls(rs, q) == [ranges |-> rs, quant |-> q]
DigitCls == Cls(<<Rng("0", "9")>>, "plus")
\* The SYMBOL class: a range written from APL alpha (U+237A, 9082) to APL omega
\* (U+2375, 9077), then eight Greek letters.
SymbolCls ==
  Cls(<< <<9082, 9077>>, <<946, 946>>, <<947, 947>>, <<948, 948>>, <<952, 952>>,
         <<963, 963>>, <<966, 966>>, <<968, 968>>, <<937, 937>> >>, "plus")
\* \s for the ASCII white space: \t \n \v \f \r and the space
SpaceCls == Cls(<< <<9, 13>>, <<32, 32>> >>, "plus")

TOKEN_SPEC ==
  << [name |-> "NUMBER",     pattern |-> <<DigitCls, Lit("t")>>],
     [name |-> "SYMBOL",     pattern |-> <<SymbolCls>>],
     [name |-> "IDENT",      pattern |-> <<Cls(<<Rng("a", "z"), Rng("A", "Z"), Rng("_", "_")>>, "one"),
                                           Cls(<<Rng("a", "z"), Rng("A", "Z"), Rng("0", "9"), Rng("_", "_")>>, "star")>>],
     [name |-> "OP",         pattern |-> <<Cls(<<Rng("+", "+"), Rng("-", "-"), Rng("*", "*"), Rng("/", "/"),
                                                 Rng("=", "="), Rng("<", "<"), Rng(">", ">"), Rng("!", "!")>>, "one")>>],
     [name |-> "LPAREN",     pattern |-> <<Lit("(")>>],
     [name |-> "RPAREN",     pattern |-> <<Lit(")")>>],
     [name |-> "LBRACE",     pattern |-> <<Lit("{")>>],
     [name |-> "RBRACE",     pattern |-> <<Lit("}")>>],
     [name |-> "COLON",      pattern |-> <<Lit(":")>>],
     [name |-> "ARROW",      pattern |-> <<Lit("-"), Lit(">")>>],
     [name |-> "SEMICOLON",  pattern |-> <<Lit(";")>>],
     [name |-> "EQUAL",      pattern |-> <<Lit("=")>>],
     [name |-> "AT",         pattern |-> <<Lit("@"), Cls(<<Rng("a", "z"), Rng("A", "Z"), Rng("_", "_")>>, "plus")>>],
     [name |-> "FLOAT",      pattern |-> <<DigitCls, Lit("."), DigitCls>>],
     [name |-> "WHITESPACE", pattern |-> <<SpaceCls>>] >>

\* re.compile(tok_regex): a class range whose end is below its start is
\* "bad character range", an re.error.
tok_regex_compiles ==
  \A n \in 1..Len(TOKEN_SPEC) :
    \A k \in 1..Len(TOKEN_SPEC[n].pattern) :
      \A r \in 1..Len(TOKEN_SPEC[n].pattern[k].ranges) :
        TOKEN_SPEC[n].pattern[k].ranges[r][1] <= TOKEN_SPEC[n].pattern[k].ranges[r][2]

InClass(c, it) ==
  \E r \in 1..Len(it.ranges) : it.ranges[r][1] <= Ord(c) /\ Ord(c) <= it.ranges[r][2]

\* How many characters from position p on are in the class.
RECURSIVE Run(_, _, _)
Run(code, p, it) ==
  IF p <= Len(code) /\ InClass(code[p], it) THEN 1 + Run(code, p + 1, it) ELSE 0

\* The position after the match of items k.. at position p (1-based), 0 for no
\* match; a repeated class takes the most characters the rest can follow.
RECURSIVE MatchFrom(_, _, _, _)
MatchFrom(items, k, code, p) ==
  IF k > Len(items) THEN p
  ELSE IF items[k].quant = "one"
       THEN IF p <= Len(code) /\ InClass(code[p], items[k])
            THEN MatchFrom(items, k + 1, code, p + 1) ELSE 0
       ELSE LET least == IF items[k].quant = "plus" THEN 1 ELSE 0
                fits == {n \in least..Run(code, p, items[k]) :
                           MatchFrom(items, k + 1, code, p + n) # 0}
            IN  IF fits = {} THEN 0
                ELSE MatchFrom(items, k + 1, code, p + (CHOOSE n \in fits : \A m \in fits : m <= n))

\* re.finditer over the alternation: at each position the first alternative that
\* matches wins; a position where none matches is passed over.
RECURSIVE finditer(_, _)
finditer(code, p) ==
  IF p > Len(code) THEN <<>>
  ELSE LET hits == {n \in 1..Len(TOKEN_SPEC) : MatchFrom(TOKEN_SPEC[n].pattern, 1, code, p) # 0}
       IN  IF hits = {} THEN finditer(code, p + 1)
           ELSE LET n == CHOOSE n \in hits : \A m \in hits : n <= m
                    e == MatchFrom(TOKEN_SPEC[n].pattern, 1, code, p)
                IN  <<[kind |-> TOKEN_SPEC[n].name, value |-> SubSeq(code, p, e - 1)]>>
                      \o finditer(code, e)

\* tokenize(code): [exc, value]; a token is <<kind, value>>.
tokenize(code) ==
  IF ~tok_regex_compiles THEN [exc |-> "re.error", value |-> <<>>]
  ELSE LET ms == finditer(code, 1)
           keep == SelectSeq(ms, LAMBDA m : m.kind # "WHITESPACE")
       IN  [exc |-> "none", value |-> [k \in 1..Len(keep) |-> <<keep[k].kind, keep[k].value>>]]

\* ------------------------------------------------------------------------
\* AST nodes (t81_compile.py 45-52)
\* ------------------------------------------------------------------------
ASTNode(node_type, fields) == [node_type |-> node_type, fields |-> fields]
NoFields == [none |-> TRUE]

\* ------------------------------------------------------------------------
\* Parser helpers and statement parsers (t81_compile.py 54-96)
\* ------------------------------------------------------------------------
\* A log_entropy that puts the record first (list.insert(0, ...)).
log_entropy_first(log, name, entropy, tag) ==
  <<[symbol |-> name, entropy |-> entropy, tag |-> tag]>> \o log

\* log_entropy appends one record to the list entropy_log.
log_entropy(log, name, entropy, tag) ==
  Append(log, [symbol |-> name, entropy |-> entropy, tag |-> tag])

parse_expression(tokens) ==
  IF Len(tokens) = 1
  THEN ASTNode("Literal", [value |-> At(tokens, 0)[2]])
  ELSE IF Len(tokens) = 3 /\ At(tokens, 1)[1] = "OP"
       THEN ASTNode("BinaryExpr", [left |-> At(tokens, 0)[2], op |-> At(tokens, 1)[2],
                                   right |-> At(tokens, 2)[2]])
       ELSE ASTNode("Unknown", NoFields)

kw_let == <<"l", "e", "t">>
kw_return == <<"r", "e", "t", "u", "r", "n">>
kw_fn == <<"f", "n">>
at_entropy == <<"@", "e", "n", "t", "r", "o", "p", "y">>
at_tag == <<"@", "t", "a", "g">>

\* The for loop of parse_let_statement from index i on, with the values found so
\* far: [exc, entropy, tag].
RECURSIVE scan_annotations(_, _, _, _)
scan_annotations(tokens, i, entropy, tag) ==
  IF i >= Len(tokens) THEN [exc |-> "none", entropy |-> entropy, tag |-> tag]
  ELSE LET isE == At(tokens, i)[2] = at_entropy
           isT == At(tokens, i)[2] = at_tag
       IN  IF (isE \/ isT) /\ ~HasIndex(tokens, i + 1)
           THEN [exc |-> "IndexError", entropy |-> entropy, tag |-> tag]
           ELSE IF (isE \/ isT) /\ At(tokens, i + 1)[1] = "LPAREN"
           THEN IF ~HasIndex(tokens, i + 2)
                THEN [exc |-> "IndexError", entropy |-> entropy, tag |-> tag]
                ELSE IF isE
                THEN IF ~IsFloatLiteral(At(tokens, i + 2)[2])
                     THEN [exc |-> "ValueError", entropy |-> entropy, tag |-> tag]
                     ELSE scan_annotations(tokens, i + 1, Some(float(At(tokens, i + 2)[2])), tag)
                ELSE scan_annotations(tokens, i + 1, entropy, Some(Strip(At(tokens, i + 2)[2], "\"")))
           ELSE scan_annotations(tokens, i + 1, entropy, tag)

\* `entropy or tag`: a float is true unless it is 0.0, a str unless it is empty.
Truthy_entropy(entropy) == ~IsNone(entropy) /\ FloatTruthy(Val(entropy))
Truthy_tag(tag) == ~IsNone(tag) /\ Val(tag) # <<>>

\* parse_let_statement(tokens) with entropy_log = log: [exc, node, log].
parse_let_statement(log, tokens) ==
  LET raise(e) == [exc |-> e, node |-> None, log |-> log]
  IN  IF ~HasIndex(tokens, 0) THEN raise("IndexError")
      ELSE IF At(tokens, 0)[2] # kw_let THEN raise("AssertionError")
      ELSE IF ~HasIndex(tokens, 2) THEN raise("IndexError")
      ELSE IF At(tokens, 2)[1] = "COLON" /\ ~HasIndex(tokens, 3) THEN raise("IndexError")
      ELSE LET name == At(tokens, 1)[2]
               type_hint == IF At(tokens, 2)[1] = "COLON" THEN Some(At(tokens, 3)[2]) ELSE None
               expr_tokens == Slice(tokens, 5, -1)
               expr == parse_expression(expr_tokens)
               found == scan_annotations(tokens, 0, None, None)
           IN  IF found.exc # "none" THEN raise(found.exc)
               ELSE [exc |-> "none",
                     node |-> Some(ASTNode("Let", [name |-> name, type |-> type_hint, expr |-> expr,
                                                   entropy |-> found.entropy, tag |-> found.tag])),
                     log |-> IF Truthy_entropy(found.entropy) \/ Truthy_tag(found.tag)
                             THEN log_entropy(log, name, found.entropy, found.tag)
                             ELSE log]

\* parse_return_statement(tokens): [exc, node].
parse_return_statement(tokens) ==
  IF ~HasIndex(tokens, 0) THEN [exc |-> "IndexError", node |-> None]
  ELSE IF At(tokens, 0)[2] # kw_return THEN [exc |-> "AssertionError", node |-> None]
  ELSE [exc |-> "none",
        node |-> Some(ASTNode("Return", [expr |-> parse_expression(Slice(tokens, 1, -1))]))]

\* ------------------------------------------------------------------------
\* TISC codegen (t81_compile.py 152-173)
\* ------------------------------------------------------------------------
NL == <<"\n">>
txt_LOAD == <<"L", "O", "A", "D", " ">>
txt_STORE == <<"S", "T", "O", "R", "E", " ">>
txt_RETURN == <<"R", "E", "T", "U", "R", "N">>
txt_FUNC == <<"F", "U", "N", "C", " ">>
txt_RETURNS == <<" ", "R", "E", "T", "U", "R", "N", "S", " ">>
txt_ENDFUNC == <<"E", "N", "D", "F", "U", "N", "C">>
txt_entropy == <<";", " ", "@", "e", "n", "t", "r", "o", "p", "y", "(">>
txt_tag == <<";", " ", "@", "t", "a", "g", "(", "\"">>
txt_None == <<"N", "o", "n", "e">>

\* format(x) of an Optional[str] inside an f-string
FmtOpt(o) == IF IsNone(o) THEN txt_None ELSE Val(o)

\* emit_tisc(ast_node): the text, None (no branch returns) for any other node.
RECURSIVE emit_tisc(_)
emit_tisc(ast_node) ==
  IF ast_node.node_type = "Program"
  THEN Some(Join(NL \o NL,
         [k \in 1..Len(ast_node.fields.functions) |->
            Val(emit_tisc(ASTNode("Function", ast_node.fields.functions[k])))]))
  ELSE IF ast_node.node_type = "Let"
  THEN LET code == emit_tisc(ast_node.fields.expr)
           m1 == IF Truthy_entropy(ast_node.fields.entropy)
                 THEN txt_entropy \o FloatStr(Val(ast_node.fields.entropy)) \o <<")">> \o NL
                 ELSE <<>>
           m2 == IF Truthy_tag(ast_node.fields.tag)
                 THEN txt_tag \o Val(ast_node.fields.tag) \o <<"\"", ")">> \o NL
                 ELSE <<>>
       IN  Some(m1 \o m2 \o FmtOpt(code) \o NL \o txt_STORE \o ast_node.fields.name)
  ELSE IF ast_node.node_type = "BinaryExpr"
  THEN Some(txt_LOAD \o ast_node.fields.left \o NL \o Upper(ast_node.fields.op) \o <<" ">>
              \o ast_node.fields.right)
  ELSE IF ast_node.node_type = "Literal"
  THEN Some(txt_LOAD \o ast_node.fields.value)
  ELSE IF ast_node.node_type = "Return"
  THEN Some(FmtOpt(emit_tisc(ast_node.fields.expr)) \o NL \o txt_RETURN)
  ELSE IF ast_node.node_type = "Function"
  THEN LET header == txt_FUNC \o ast_node.fields.name \o txt_RETURNS \o ast_node.fields.returns
           body == Join(NL, [k \in 1..Len(ast_node.fields.body) |->
                               Val(emit_tisc(ast_node.fields.body[k]))])
       IN  Some(header \o NL \o body \o NL \o txt_ENDFUNC)
  ELSE None

\* ------------------------------------------------------------------------
\* .cweb generator (t81_compile.py 175-202)
\* ------------------------------------------------------------------------
\* A reference to the one list object bound to the module global entropy_log.
EntropyLogRef == [ref |-> "entropy_log"]

txt_version == <<"0", ".", "1", ".", "0">>
txt_description ==
  <<"A", "u", "t", "o", "-", "g", "e", "n", "e", "r", "a", "t", "e", "d", " ", "f", "r", "o", "m",
    " ", "T", "8", "1", "L", "a", "n", "g", " ", "p", "a", "r", "s", "e", "r", " ", "(">>

\* The dict generate_cweb_module returns; the key "@k" is the field k.  The value
\* of "@symbols" is the global list itself, not a copy of it.
generate_cweb_module(module_name) ==
  [name |-> module_name,
   version |-> txt_version,
   description |-> txt_description \o module_name \o <<")">>,
   license |-> <<"G", "P", "L", "-", "3", ".", "0">>,
   source |-> [type |-> <<"l", "o", "c", "a", "l">>, path |-> <<".", "/">> \o module_name \o <<"/">>],
   build |-> [system |-> <<"c", "u", "s", "t", "o", "m">>,
              flags |-> << <<"-", "D", "U", "S", "E", "_", "A", "X", "I", "O", "N">> >>],
   dependencies |-> [runtime |-> <<>>],
   ai |-> [optimize |-> TRUE, entropy_feedback |-> TRUE],
   split |-> [enabled |-> FALSE, max_size_mb |-> 50],
   symbols |-> EntropyLogRef]

\* ------------------------------------------------------------------------
\* State
\* ------------------------------------------------------------------------
VARIABLES
  pc,           \* where the process is: "idle" (between calls), a step of a call,
                \* "parsed" / "let_parsed" / "emitted" (a call returned), "error"
  mode,         \* "main" inside main(), "call" for a direct call of a function
  entropy_log,  \* the module global list entropy_log
  pp,           \* the locals of parse_program
  pf,           \* the locals of parse_function
  exc,          \* the exception that ended the call, "none" without one
  result,       \* what the last call returned (None before)
  tisc,         \* what emit_tisc returned last (None before)
  descriptors,  \* the dicts generate_cweb_module returned, oldest first
  ops,          \* how many top-level calls the process has made
  hist          \* history, read by the properties only

vars == <<pc, mode, entropy_log, pp, pf, exc, result, tisc, descriptors, ops, hist>>

NoPP == [tokens |-> <<>>, functions |-> <<>>, i |-> 0, start |-> 0, depth |-> 0]
NoPF == [tokens |-> <<>>, fn_name |-> <<>>, param_tokens |-> <<>>, params |-> <<>>, i |-> 0,
         return_type |-> <<>>, body_tokens |-> <<>>, statements |-> <<>>, end |-> 0]
\* source: the text given to tokenize; log0: entropy_log when the current call
\* began; lets: the calls of parse_let_statement of the current call; rets: those of
\* parse_return_statement; spans: (start, i) of each call of parse_function;
\* raised_at: the step that raised; snapshots: entropy_log at each call of
\* generate_cweb_module; grown: the number of earlier calls that appended to the log.
NoHist == [source |-> <<>>, log0 |-> <<>>, lets |-> <<>>, rets |-> <<>>, spans |-> <<>>,
           raised_at |-> "none", snapshots |-> <<>>, grown |-> 0]

InitWith(p, tokens) ==
  /\ pc = p
  /\ mode = "call"
  /\ entropy_log = <<>>
  /\ pp = [NoPP EXCEPT !.tokens = tokens]
  /\ pf = NoPF
  /\ exc = "none"
  /\ result = None
  /\ tisc = None
  /\ descriptors = <<>>
  /\ ops = 0
  /\ hist = NoHist

\* raise e at the current step
Raise(e) ==
  /\ pc' = "error"
  /\ exc' = e
  /\ hist' = [hist EXCEPT !.raised_at = pc]
  /\ UNCHANGED <<mode, entropy_log, pp, pf, result, tisc, descriptors, ops>>

\* ------------------------------------------------------------------------
\* parse_program (t81_compile.py 132-150), one action per loop step
\* ------------------------------------------------------------------------
\* line 135-138 and 150: the outer while
pp_scan ==
  /\ pc = "pp_scan"
  /\ IF pp.i < Len(pp.tokens)
     THEN IF At(pp.tokens, pp.i)[2] = kw_fn
          THEN /\ pp' = [pp EXCEPT !.start = pp.i, !.depth = 0]
               /\ pc' = "pp_depth_scan"
               /\ UNCHANGED result
          ELSE /\ pp' = [pp EXCEPT !.i = pp.i + 1]
               /\ UNCHANGED <<pc, result>>
     ELSE /\ result' = Some(ASTNode("Program", [functions |-> pp.functions]))
          /\ pc' = "parsed"
          /\ UNCHANGED pp
  /\ UNCHANGED <<mode, entropy_log, pf, exc, tisc, descriptors, ops, hist>>

\* A brace scan that stops at the first closing brace, whatever the depth.
pp_depth_scan_first_close ==
  /\ pc = "pp_depth_scan"
  /\ IF pp.i < Len(pp.tokens)
     THEN IF At(pp.tokens, pp.i)[1] = "RBRACE"
          THEN /\ pc' = "pp_call"
               /\ UNCHANGED pp
          ELSE /\ pp' = [pp EXCEPT !.i = pp.i + 1]
               /\ UNCHANGED pc
     ELSE /\ pc' = "pp_call"
          /\ UNCHANGED pp
  /\ UNCHANGED <<mode, entropy_log, pf, exc, result, tisc, descriptors, ops, hist>>

\* line 139-146: the brace-depth while
pp_depth_scan ==
  /\ pc = "pp_depth_scan"
  /\ IF pp.i < Len(pp.tokens)
     THEN IF At(pp.tokens, pp.i)[1] = "LBRACE"
          THEN /\ pp' = [pp EXCEPT !.depth = pp.depth + 1, !.i = pp.i + 1]
               /\ UNCHANGED pc
          ELSE IF At(pp.tokens, pp.i)[1] = "RBRACE"
          THEN IF pp.depth - 1 = 0
               THEN /\ pp' = [pp EXCEPT !.depth = 0]
                    /\ pc' = "pp_call"
               ELSE /\ pp' = [pp EXCEPT !.depth = pp.depth - 1, !.i = pp.i + 1]
                    /\ UNCHANGED pc
          ELSE /\ pp' = [pp EXCEPT !.i = pp.i + 1]
               /\ UNCHANGED pc
     ELSE /\ pc' = "pp_call"
          /\ UNCHANGED pp
  /\ UNCHANGED <<mode, entropy_log, pf, exc, result, tisc, descriptors, ops, hist>>

\* line 147-148: fn_tokens = tokens[start:i+1]; parse_function(fn_tokens) is entered
pp_call ==
  /\ pc = "pp_call"
  /\ pf' = [NoPF EXCEPT !.tokens = Slice(pp.tokens, pp.start, pp.i + 1)]
  /\ hist' = [hist EXCEPT !.spans = Append(hist.spans, <<pp.start, pp.i>>)]
  /\ pc' = "pf_head"
  /\ UNCHANGED <<mode, entropy_log, pp, exc, result, tisc, descriptors, ops>>

\* ------------------------------------------------------------------------
\* parse_function (t81_compile.py 98-130), one action per loop step
\* ------------------------------------------------------------------------
tok_RPAREN == <<"RPAREN", <<")">>>>
tok_ARROW == <<"ARROW", <<"-", ">">>>>
tok_LBRACE == <<"LBRACE", <<"{">>>>
tok_RBRACE == <<"RBRACE", <<"}">>>>

\* line 99-102
pf_head ==
  /\ pc = "pf_head"
  /\ IF ~HasIndex(pf.tokens, 1) THEN Raise("IndexError")
     ELSE IF Index(pf.tokens, tok_RPAREN) = -1 THEN Raise("ValueError")
     ELSE /\ pf' = [pf EXCEPT !.fn_name = At(pf.tokens, 1)[2],
                              !.param_tokens = Slice(pf.tokens, 2, Index(pf.tokens, tok_RPAREN)),
                              !.params = <<>>,
                              !.i = 1]
          /\ pc' = "pf_param_scan"
          /\ UNCHANGED <<mode, entropy_log, pp, exc, result, tisc, descriptors, ops, hist>>

\* line 103-110: the parameter while
pf_param_scan ==
  /\ pc = "pf_param_scan"
  /\ IF pf.i < Len(pf.param_tokens)
     THEN IF At(pf.param_tokens, pf.i)[1] = "IDENT"
          THEN IF ~HasIndex(pf.param_tokens, pf.i + 1) THEN Raise("IndexError")
               ELSE IF At(pf.param_tokens, pf.i + 1)[1] = "COLON"
               THEN IF ~HasIndex(pf.param_tokens, pf.i + 2) THEN Raise("IndexError")
                    ELSE /\ pf' = [pf EXCEPT
                                     !.params = Append(pf.params,
                                                  [name |-> At(pf.param_tokens, pf.i)[2],
                                                   type |-> At(pf.param_tokens, pf.i + 2)[2]]),
                                     !.i = pf.i + 3]
                         /\ UNCHANGED <<pc, mode, entropy_log, pp, exc, result, tisc,
                                        descriptors, ops, hist>>
               ELSE /\ pf' = [pf EXCEPT !.i = pf.i + 1]
                    /\ UNCHANGED <<pc, mode, entropy_log, pp, exc, result, tisc,
                                   descriptors, ops, hist>>
          ELSE /\ pf' = [pf EXCEPT !.i = pf.i + 1]
               /\ UNCHANGED <<pc, mode, entropy_log, pp, exc, result, tisc,
                              descriptors, ops, hist>>
     ELSE /\ pc' = "pf_mid"
          /\ UNCHANGED <<pf, mode, entropy_log, pp, exc, result, tisc, descriptors, ops, hist>>

\* line 112-116
pf_mid ==
  /\ pc = "pf_mid"
  /\ IF Index(pf.tokens, tok_ARROW) = -1 THEN Raise("ValueError")
     ELSE IF ~HasIndex(pf.tokens, Index(pf.tokens, tok_ARROW) + 1) THEN Raise("IndexError")
     ELSE IF Index(pf.tokens, tok_LBRACE) = -1 \/ Index(pf.tokens, tok_RBRACE) = -1
     THEN Raise("ValueError")
     ELSE /\ pf' = [pf EXCEPT !.return_type = At(pf.tokens, Index(pf.tokens, tok_ARROW) + 1)[2],
                              !.body_tokens = Slice(pf.tokens, Index(pf.tokens, tok_LBRACE) + 1,
                                                    Index(pf.tokens, tok_RBRACE)),
                              !.statements = <<>>,
                              !.i = 0]
          /\ pc' = "pf_body_scan"
          /\ UNCHANGED <<mode, entropy_log, pp, exc, result, tisc, descriptors, ops, hist>>

\* A body scan whose last branch forgets `i += 1`.
pf_body_scan_no_advance ==
  /\ pc = "pf_body_scan"
  /\ IF pf.i < Len(pf.body_tokens)
     THEN IF At(pf.body_tokens, pf.i)[2] = kw_let
          THEN /\ pf' = [pf EXCEPT !.end = pf.i]
               /\ pc' = "pf_let_scan"
               /\ UNCHANGED hist
          ELSE IF At(pf.body_tokens, pf.i)[2] = kw_return
          THEN LET r == parse_return_statement(Slice(pf.body_tokens, pf.i, pf.i + 3))
               IN  /\ pf' = [pf EXCEPT !.statements = Append(pf.statements, Val(r.node)),
                                       !.i = pf.i + 3]
                   /\ hist' = [hist EXCEPT !.rets = Append(hist.rets,
                                 [body |-> pf.body_tokens, at |-> pf.i, node |-> Val(r.node),
                                  next |-> pf.i + 3])]
                   /\ UNCHANGED pc
          ELSE UNCHANGED <<pc, pf, hist>>
     ELSE /\ pc' = "pf_return"
          /\ UNCHANGED <<pf, hist>>
  /\ UNCHANGED <<mode, entropy_log, pp, exc, result, tisc, descriptors, ops>>

\* line 117-119 and 124-128: the body while; a return statement is parsed here
pf_body_scan ==
  /\ pc = "pf_body_scan"
  /\ IF pf.i < Len(pf.body_tokens)
     THEN IF At(pf.body_tokens, pf.i)[2] = kw_let
          THEN /\ pf' = [pf EXCEPT !.end = pf.i]
               /\ pc' = "pf_let_scan"
               /\ UNCHANGED hist
          ELSE IF At(pf.body_tokens, pf.i)[2] = kw_return
          THEN LET r == parse_return_statement(Slice(pf.body_tokens, pf.i, pf.i + 3))
               IN  /\ pf' = [pf EXCEPT !.statements = Append(pf.statements, Val(r.node)),
                                       !.i = pf.i + 3]
                   /\ hist' = [hist EXCEPT !.rets = Append(hist.rets,
                                 [body |-> pf.body_tokens, at |-> pf.i, node |-> Val(r.node),
                                  next |-> pf.i + 3])]
                   /\ UNCHANGED pc
          ELSE /\ pf' = [pf EXCEPT !.i = pf.i + 1]
               /\ UNCHANGED <<pc, hist>>
     ELSE /\ pc' = "pf_return"
          /\ UNCHANGED <<pf, hist>>
  /\ UNCHANGED <<mode, entropy_log, pp, exc, result, tisc, descriptors, ops>>

\* line 120-123: the while that looks for the semicolon of a let, then the call of
\* parse_let_statement on body_tokens[i:end+1]
pf_let_scan ==
  /\ pc = "pf_let_scan"
  /\ IF ~HasIndex(pf.body_tokens, pf.end) THEN Raise("IndexError")
     ELSE IF At(pf.body_tokens, pf.end)[1] # "SEMICOLON"
     THEN /\ pf' = [pf EXCEPT !.end = pf.end + 1]
          /\ UNCHANGED <<pc, mode, entropy_log, pp, exc, result, tisc, descriptors, ops, hist>>
     ELSE LET w == Slice(pf.body_tokens, pf.i, pf.end + 1)
              r == parse_let_statement(entropy_log, w)
              h == [hist EXCEPT !.lets = Append(hist.lets,
                      [tokens |-> w, before |-> entropy_log, after |-> r.log, exc |-> r.exc,
                       node |-> r.node])]
          IN  IF r.exc # "none"
              THEN /\ pc' = "error"
                   /\ exc' = r.exc
                   /\ hist' = [h EXCEPT !.raised_at = "parse_let_statement"]
                   /\ UNCHANGED <<mode, entropy_log, pp, pf, result, tisc, descriptors, ops>>
              ELSE /\ entropy_log' = r.log
                   /\ pf' = [pf EXCEPT !.statements = Append(pf.statements, Val(r.node)),
                                       !.i = pf.end + 1]
                   /\ hist' = h
                   /\ pc' = "pf_body_scan"
                   /\ UNCHANGED <<mode, pp, exc, result, tisc, descriptors, ops>>

\* line 130, then 148-149 of parse_program: the Function is appended, i += 1
pf_return ==
  /\ pc = "pf_return"
  /\ pp' = [pp EXCEPT
              !.functions = Append(pp.functions,
                 [type |-> "Function", name |-> pf.fn_name, params |-> pf.params,
                  returns |-> pf.return_type, body |-> pf.statements]),
              !.i = pp.i + 1]
  /\ pf' = NoPF
  /\ pc' = "pp_scan"
  /\ UNCHANGED <<mode, entropy_log, exc, result, tisc, descriptors, ops, hist>>

ParseNext ==
  \/ pp_scan
  \/ pp_depth_scan
  \/ pp_call
  \/ pf_head
  \/ pf_param_scan
  \/ pf_mid
  \/ pf_body_scan
  \/ pf_let_scan
  \/ pf_return

\* ------------------------------------------------------------------------
\* Calls made by a process: main() (t81_compile.py 205-237) or direct calls of
\* the module's functions
\* ------------------------------------------------------------------------
BeginCall(h) == [h EXCEPT !.log0 = entropy_log, !.lets = <<>>, !.rets = <<>>, !.spans = <<>>,
                          !.raised_at = "none"]

\* main, line 213-218: the source is read and tokenized; parse_program is entered
main_tokenize(source) ==
  /\ pc = "idle"
  /\ ops < MaxOps
  /\ ops' = ops + 1
  /\ mode' = "main"
  /\ LET t == tokenize(source)
     IN  IF t.exc # "none"
         THEN /\ pc' = "error"
              /\ exc' = t.exc
              /\ hist' = [BeginCall(hist) EXCEPT !.source = source, !.raised_at = "tokenize"]
              /\ UNCHANGED pp
         ELSE /\ pc' = "pp_scan"
              /\ pp' = [NoPP EXCEPT !.tokens = t.value]
              /\ hist' = [BeginCall(hist) EXCEPT !.source = source]
              /\ UNCHANGED exc
  /\ UNCHANGED <<entropy_log, pf, result, tisc, descriptors>>

\* parse_program(tokens) called on a token list
call_parse_program(tokens) ==
  /\ pc = "idle"
  /\ ops < MaxOps
  /\ ops' = ops + 1
  /\ pc' = "pp_scan"
  /\ pp' = [NoPP EXCEPT !.tokens = tokens]
  /\ hist' = BeginCall(hist)
  /\ UNCHANGED <<mode, entropy_log, pf, exc, result, tisc, descriptors>>

\* parse_let_statement(tokens) called on a statement window
call_parse_let_statement(tokens) ==
  /\ pc = "idle"
  /\ ops < MaxOps
  /\ ops' = ops + 1
  /\ LET r == parse_let_statement(entropy_log, tokens)
     IN  /\ hist' = [BeginCall(hist) EXCEPT
                       !.lets = <<[tokens |-> tokens, before |-> entropy_log, after |-> r.log,
                                   exc |-> r.exc, node |-> r.node]>>,
                       !.raised_at = IF r.exc # "none" THEN "parse_let_statement" ELSE "none"]
         /\ entropy_log' = r.log
         /\ exc' = r.exc
         /\ result' = r.node
         /\ pc' = IF r.exc # "none" THEN "error" ELSE "let_parsed"
  /\ UNCHANGED <<mode, pp, pf, tisc, descriptors>>

\* emit_tisc(ast) on the node the parser returned.  In main (line 221-226) the AST
\* is first written with json.dump, which raises TypeError on an ASTNode object: a
\* Function's body holds its statements as ASTNode objects.
call_emit_tisc ==
  /\ pc \in {"parsed", "let_parsed"}
  /\ IF /\ mode = "main"
        /\ \E k \in 1..Len(Val(result).fields.functions) :
              Val(result).fields.functions[k].body # <<>>
     THEN Raise("TypeError")
     ELSE /\ tisc' = emit_tisc(Val(result))
          /\ pc' = "emitted"
          /\ UNCHANGED <<mode, entropy_log, pp, pf, exc, result, descriptors, ops, hist>>

\* generate_cweb_module(module_name): main's line 233-235 after the outputs, or a
\* direct call
call_generate_cweb_module(module_name) ==
  /\ pc \in {"idle", "emitted"}
  /\ ops < MaxOps
  /\ ops' = ops + 1
  /\ descriptors' = Append(descriptors, generate_cweb_module(module_name))
  /\ hist' = [hist EXCEPT !.snapshots = Append(hist.snapshots, entropy_log)]
  /\ UNCHANGED <<pc, mode, entropy_log, pp, pf, exc, result, tisc>>

\* The call is over (its result taken, or its exception caught): the process goes on.
return_to_caller ==
  /\ pc \in {"parsed", "let_parsed", "emitted", "error"}
  /\ pc' = "idle"
  /\ mode' = "call"
  /\ pp' = NoPP
  /\ pf' = NoPF
  /\ exc' = "none"
  /\ result' = None
  /\ tisc' = None
  /\ hist' = [hist EXCEPT !.source = <<>>, !.log0 = <<>>, !.lets = <<>>, !.rets = <<>>,
                          !.spans = <<>>, !.raised_at = "none",
                          !.grown = hist.grown + (IF entropy_log # hist.log0 THEN 1 ELSE 0)]
  /\ UNCHANGED <<entropy_log, descriptors, ops>>

\* What a descriptor's symbol list reads as now: the list its "@symbols" refers to.
Deref(r) == IF r.ref = "entropy_log" THEN entropy_log ELSE <<>>

\* ------------------------------------------------------------------------
\* Inputs
\* ------------------------------------------------------------------------
ID(lex) == <<"IDENT", lex>>
tok_fn == ID(kw_fn)
tok_let == ID(kw_let)
tok_return == ID(kw_return)
tok_LPAREN == <<"LPAREN", <<"(">>>>
tok_COLON == <<"COLON", <<":">>>>
tok_SEMI == <<"SEMICOLON", <<";">>>>
tok_eq == <<"OP", <<"=">>>>
tok_plus == <<"OP", <<"+">>>>
tok_5t == <<"NUMBER", <<"5", "t">>>>
tok_T == ID(<<"T">>)
lex_T81Int == <<"T", "8", "1", "I", "n", "t">>
lex_add == <<"a", "d", "d">>
lex_seed == <<"s", "e", "e", "d">>
FLT(lex) == <<"FLOAT", lex>>
Entropy(lex) == << <<"AT", at_entropy>>, tok_LPAREN, FLT(lex), tok_RPAREN >>
Tag(lex) == << <<"AT", at_tag>>, tok_LPAREN, ID(lex), tok_RPAREN >>

SeqsUpTo(S, n) == UNION {[1..k -> S] : k \in 0..n}
\* The concatenations of at most n members of the sequence pool
ConcatsUpTo(pool, n) ==
  UNION {{Concat([k \in 1..m |-> pool[f[k]]]) : f \in [1..m -> 1..Len(pool)]} : m \in 0..n}

\* Scenario A of the specification, as text and as the tokens it stands for
src_ScenarioA ==
  <<"f", "n", " ", "a", "d", "d", "(", "a", ":", " ", "T", "8", "1", "I", "n", "t", ",", " ",
    "b", ":", " ", "T", "8", "1", "I", "n", "t", ")", " ", "-", ">", " ",
    "T", "8", "1", "I", "n", "t", " ", "{", " ",
    "l", "e", "t", " ", "c", " ", "=", " ", "a", " ", "+", " ", "b", ";", " ",
    "r", "e", "t", "u", "r", "n", " ", "c", ";", " ", "}">>
src_ScenarioB ==
  <<"l", "e", "t", " ", "x", ":", " ", "T", "8", "1", "I", "n", "t", " ", "=", " ", "5", "t", " ",
    "@", "e", "n", "t", "r", "o", "p", "y", "(", "0", ".", "4", "2", ")", " ",
    "@", "t", "a", "g", "(", "\"", "s", "e", "e", "d", "\"", ")", ";">>
Sources == {src_ScenarioA, src_ScenarioB}

let_untyped == <<tok_let, ID(<<"c">>), tok_eq, ID(<<"a">>), tok_plus, ID(<<"b">>), tok_SEMI>>
let_typed == <<tok_let, ID(<<"x">>), tok_COLON, tok_T, tok_eq, ID(<<"a">>), tok_plus,
               ID(<<"b">>), tok_SEMI>>
let_ScenarioB ==
  <<tok_let, ID(<<"x">>), tok_COLON, ID(lex_T81Int), tok_eq, tok_5t>>
    \o Entropy(<<"0", ".", "4", "2">>) \o Tag(lex_seed) \o <<tok_SEMI>>
let_zero ==
  <<tok_let, ID(<<"y">>), tok_COLON, tok_T, tok_eq, tok_5t>>
    \o Entropy(<<"0", ".", "0">>) \o <<tok_SEMI>>
let_tag ==
  <<tok_let, ID(<<"z">>), tok_COLON, tok_T, tok_eq, tok_5t>> \o Tag(lex_seed) \o <<tok_SEMI>>

Header(name, params) ==
  <<tok_fn, ID(name), tok_LPAREN>> \o params \o <<tok_RPAREN, tok_ARROW, tok_T>>
Fn(name, params, body) == Header(name, params) \o <<tok_LBRACE>> \o body \o <<tok_RBRACE>>

tokens_ScenarioA ==
  <<tok_fn, ID(lex_add), tok_LPAREN, ID(<<"a">>), tok_COLON, ID(lex_T81Int),
    ID(<<"b">>), tok_COLON, ID(lex_T81Int), tok_RPAREN, tok_ARROW, ID(lex_T81Int), tok_LBRACE>>
    \o let_untyped \o <<tok_return, ID(<<"c">>), tok_SEMI, tok_RBRACE>>

\* The pools of the process model
Programs ==
  {tokens_ScenarioA,
   Fn(<<"f">>, <<>>, let_ScenarioB),
   Fn(<<"g">>, <<>>, let_tag \o let_zero)}
Lets == {let_ScenarioB, let_zero, let_untyped, let_tag}
ModuleNames == {<<"m">>}

\* The statement windows of the let model: with and without a type hint, three
\* expression shapes, and the annotation markers in every arrangement
LetHeads == {<<tok_let, ID(<<"c">>), tok_eq>>, <<tok_let, ID(<<"x">>), tok_COLON, ID(lex_T81Int), tok_eq>>}
LetExprs == {<<tok_5t>>, <<ID(<<"a">>)>>, <<ID(<<"a">>), tok_plus, ID(<<"b">>)>>}
LetAnnos ==
  {<<>>,
   Entropy(<<"0", ".", "4", "2">>),
   Entropy(<<"0", ".", "0">>),
   Entropy(<<"0", ".", "5", "0">>),
   Tag(lex_seed),
   Entropy(<<"0", ".", "4", "2">>) \o Tag(lex_seed),
   Tag(lex_seed) \o Entropy(<<"0", ".", "0">>),
   Entropy(<<"0", ".", "0">>) \o Entropy(<<"0", ".", "4", "2">>)}
LetWindows == {h \o e \o a \o <<tok_SEMI>> : h \in LetHeads, e \in LetExprs, a \in LetAnnos}

\* The token lists of the parser model
ParamAlphabet == {ID(<<"a">>), ID(<<"b">>), tok_COLON}
FamParams == {Fn(<<"f">>, p, <<>>) : p \in SeqsUpTo(ParamAlphabet, MaxParamLen)}
StmtPool ==
  << let_untyped, let_typed, let_ScenarioB, let_zero,
     <<tok_return, ID(<<"c">>), tok_SEMI>>,
     <<tok_return, ID(<<"a">>), tok_plus, ID(<<"b">>), tok_SEMI>>,
     <<tok_return>>,
     <<tok_let, ID(<<"x">>)>>,
     <<tok_let, tok_SEMI>>,
     <<tok_let, ID(<<"x">>), tok_COLON, tok_T, tok_eq, tok_5t>> \o Entropy(<<"5", "t">>) \o <<tok_SEMI>> >>
FamBody == {Fn(<<"f">>, <<>>, b) : b \in ConcatsUpTo(StmtPool, MaxStmts)}
UnitPool ==
  << Fn(<<"f">>, <<>>, <<>>),
     Fn(<<"g">>, <<>>, <<tok_LBRACE, tok_RBRACE>>),
     Fn(<<"h">>, <<>>, <<tok_LBRACE, tok_fn, tok_RBRACE>>),
     Header(<<"u">>, <<>>) \o <<tok_LBRACE, tok_LBRACE, tok_RBRACE>>,
     <<tok_fn, ID(<<"k">>), tok_RPAREN, tok_ARROW, tok_T, tok_RBRACE, tok_LBRACE>>,
     <<tok_fn>>,
     <<tok_RBRACE>>,
     <<ID(<<"x">>)>> >>
FamProg == ConcatsUpTo(UnitPool, MaxUnits)
ParseInputs == FamParams \cup FamBody \cup FamProg \cup {tokens_ScenarioA}

\* ------------------------------------------------------------------------
\* Specifications
\* ------------------------------------------------------------------------
\* The process: any sequence of at most MaxOps calls.
Init == InitWith("idle", <<>>)
Next ==
  \/ \E source \in Sources : main_tokenize(source)
  \/ \E tokens \in Programs : call_parse_program(tokens)
  \/ \E tokens \in Lets : call_parse_let_statement(tokens)
  \/ call_emit_tisc
  \/ \E module_name \in ModuleNames : call_generate_cweb_module(module_name)
  \/ return_to_caller
  \/ ParseNext
Spec == Init /\ [][Next]_vars

\* parse_let_statement and emit_tisc on every statement window of LetWindows.
LetNext ==
  \/ \E tokens \in LetWindows : call_parse_let_statement(tokens)
  \/ call_emit_tisc
  \/ return_to_caller
SpecLet == Init /\ [][LetNext]_vars

\* One call of parse_program on every token list of ParseInputs.
InitParse == \E tokens \in ParseInputs : InitWith("pp_scan", tokens)
SpecParse == InitParse /\ [][ParseNext]_vars
\* The interpreter runs a call's next step whenever there is one.
FairSpecParse == SpecParse /\ WF_vars(ParseNext)

\* ------------------------------------------------------------------------
\* Properties
\* ------------------------------------------------------------------------
\* text.split("\n")
RECURSIVE Lines(_)
Lines(t) ==
  IF \E k \in 1..Len(t) : t[k] = "\n"
  THEN LET k == CHOOSE k \in 1..Len(t) : t[k] = "\n" /\ \A m \in 1..(k - 1) : t[m] # "\n"
       IN  <<SubSeq(t, 1, k - 1)>> \o Lines(SubSeq(t, k + 1, Len(t)))
  ELSE <<t>>

\* e's members appear in l in e's order (not necessarily next to each other)
RECURSIVE IsSubseq(_, _)
IsSubseq(e, l) ==
  IF e = <<>> THEN TRUE
  ELSE IF l = <<>> THEN FALSE
  ELSE IF Head(e) = Head(l) THEN IsSubseq(Tail(e), Tail(l))
  ELSE IsSubseq(e, Tail(l))

IR_ScenarioA ==
  << txt_FUNC \o lex_add \o txt_RETURNS \o lex_T81Int,
     txt_LOAD \o <<"a">>,
     <<"+", " ", "b">>,
     txt_STORE \o <<"c">>,
     txt_LOAD \o <<"c">>,
     txt_RETURN >>

\* C1: once the end-to-end run (tokenize, parse_program, emit_tisc) on the text of
\* Scenario A is over, it has produced a Program of exactly one Function add with
\* the parameters a: T81Int and b: T81Int, returning T81Int, and an IR that holds,
\* in this order, the header of add, LOAD a, + b, STORE c, LOAD c and RETURN.
C1_ScenarioA ==
  (hist.source = src_ScenarioA /\ pc \in {"emitted", "error"}) =>
    /\ pc = "emitted"
    /\ Len(Val(result).fields.functions) = 1
    /\ Val(result).fields.functions[1].name = lex_add
    /\ Val(result).fields.functions[1].params =
         << [name |-> <<"a">>, type |-> lex_T81Int], [name |-> <<"b">>, type |-> lex_T81Int] >>
    /\ Val(result).fields.functions[1].returns = lex_T81Int
    /\ IsSubseq(IR_ScenarioA, Lines(Val(tisc)))

\* A window carries a marker: @entropy ( <number> ) or @tag ( <value> ).
HasMarker(w) ==
  \E k \in 1..(Len(w) - 3) :
    /\ w[k + 1][1] = "LPAREN"
    /\ w[k + 3][1] = "RPAREN"
    /\ \/ w[k][2] = at_entropy /\ w[k + 2][1] = "FLOAT"
       \/ w[k][2] = at_tag

\* C2: every call of parse_let_statement that returns appends exactly one record,
\* for the binding's name, when the window carries an @entropy(<number>) or
\* @tag(<value>) marker (0.0 included), and leaves the log as it was when the window
\* carries neither; so the records follow the order of the calls.
C2_LogGrowth ==
  \A n \in 1..Len(hist.lets) :
    LET c == hist.lets[n]
    IN  c.exc = "none" =>
          IF HasMarker(c.tokens)
          THEN /\ Len(c.after) = Len(c.before) + 1
               /\ IsPrefix(c.before, c.after)
               /\ c.after[Len(c.after)].symbol = c.tokens[2][2]
          ELSE c.after = c.before

\* C3: the symbol list of every descriptor generate_cweb_module has returned reads
\* as the log stood when that call was made, whatever was appended since.
C3_Snapshot ==
  \A k \in 1..Len(descriptors) : Deref(descriptors[k].symbols) = hist.snapshots[k]

\* C4: in every step of the process the log before the step is a prefix of the log
\* after it: nothing is modified, removed, reordered or reset, within a call or
\* between two compilations.
C4_AppendOnly == [][IsPrefix(entropy_log, entropy_log')]_vars

\* C4, reached: a second compilation has returned, the log holding the records of an
\* earlier call followed by its own.
C4_Witness ==
  /\ pc = "parsed"
  /\ hist.grown >= 1
  /\ hist.log0 # <<>>
  /\ Len(entropy_log) > Len(hist.log0)
  /\ IsPrefix(hist.log0, entropy_log)

\* The position (1-based) of the first token whose lexeme is the equals sign, 0
\* without one.
EqualsAt(w) ==
  IF \E k \in 1..Len(w) : w[k][2] = <<"=">>
  THEN CHOOSE k \in 1..Len(w) : w[k][2] = <<"=">> /\ \A m \in 1..(k - 1) : w[m][2] # <<"=">>
  ELSE 0

\* C5: the expression of the Let that parse_let_statement returns is
\* parse_expression of the tokens strictly between the equals sign and the
\* trailing semicolon, with or without a type hint.
C5_ExprWindow ==
  \A n \in 1..Len(hist.lets) :
    LET c == hist.lets[n]
    IN  (c.exc = "none" /\ EqualsAt(c.tokens) # 0) =>
          Val(c.node).fields.expr =
            parse_expression(SubSeq(c.tokens, EqualsAt(c.tokens) + 1, Len(c.tokens) - 1))

\* The index (0-based) of the first semicolon of body at or after index a, -1
\* without one.
SemicolonFrom(body, a) ==
  IF \E k \in a..(Len(body) - 1) : At(body, k)[1] = "SEMICOLON"
  THEN CHOOSE k \in a..(Len(body) - 1) :
         At(body, k)[1] = "SEMICOLON" /\ \A m \in a..(k - 1) : At(body, m)[1] # "SEMICOLON"
  ELSE -1

\* C6: a return statement met by the body scan yields Return{parse_expression of
\* the tokens between the keyword and the statement's semicolon}, and the scan
\* resumes after that semicolon.
C6_ReturnShapes ==
  \A n \in 1..Len(hist.rets) :
    LET r == hist.rets[n]
        semi == SemicolonFrom(r.body, r.at)
    IN  semi # -1 =>
          /\ r.node.fields.expr = parse_expression(Slice(r.body, r.at + 1, semi))
          /\ r.next = semi + 1

\* Brace depth over tokens[a..j] (0-based, inclusive): +1 on {, -1 on }.
BraceDepth(tokens, a, j) ==
  Cardinality({k \in a..j : At(tokens, k)[1] = "LBRACE"})
    - Cardinality({k \in a..j : At(tokens, k)[1] = "RBRACE"})
\* The first } after a at which the depth counted from a is zero, -1 without one.
FirstClose(tokens, a) ==
  LET closes == {j \in a..(Len(tokens) - 1) :
                   At(tokens, j)[1] = "RBRACE" /\ BraceDepth(tokens, a, j) = 0}
  IN  IF closes = {} THEN -1 ELSE CHOOSE j \in closes : \A m \in closes : j <= m
SpanStart(k) == hist.spans[k][1]
SpanLast(k) == Min(hist.spans[k][2], Len(pp.tokens) - 1)
FnTokens == {p \in 0..(Len(pp.tokens) - 1) : At(pp.tokens, p)[2] = kw_fn}

\* One Function per fn token outside the spans found before it, in source order.
OneFunctionPerFn ==
  /\ Len(pp.functions) = Len(hist.spans)
  /\ \A k \in 1..Len(hist.spans) :
       /\ SpanStart(k) \in FnTokens
       /\ HasIndex(pp.tokens, SpanStart(k) + 1)
       /\ pp.functions[k].name = At(pp.tokens, SpanStart(k) + 1)[2]
       /\ \A m \in 1..(k - 1) : SpanLast(m) < SpanStart(k)
  /\ \A p \in FnTokens :
       (\E k \in 1..Len(hist.spans) : SpanStart(k) = p)
         <=> ~(\E k \in 1..Len(hist.spans) : SpanStart(k) < p /\ p <= SpanLast(k))

\* C7, as stated: when parse_program returns, there is one Function per fn token
\* outside the earlier spans, in source order, and every span ends at the first
\* later } at which the depth counted from its fn token is back to zero.
C7_SpansCloseAtZero ==
  pc = "parsed" =>
    /\ OneFunctionPerFn
    /\ \A k \in 1..Len(hist.spans) :
         /\ FirstClose(pp.tokens, SpanStart(k)) # -1
         /\ hist.spans[k][2] = FirstClose(pp.tokens, SpanStart(k))

\* C7, amended: when parse_program returns, there is one Function per fn token
\* outside the earlier spans, in source order, and every span ends at the first
\* later } at which the depth counted from its fn token is back to zero, or, when
\* there is no such }, at the last token of the sequence.
C7_SpansCloseAtZeroOrEnd ==
  pc = "parsed" =>
    /\ OneFunctionPerFn
    /\ \A k \in 1..Len(hist.spans) :
         IF FirstClose(pp.tokens, SpanStart(k)) # -1
         THEN hist.spans[k][2] = FirstClose(pp.tokens, SpanStart(k))
         ELSE hist.spans[k][2] = Len(pp.tokens)

\* C7, reached: two functions returned, the first with nested braces and with an fn
\* token inside its span that starts no function.
C7_Witness ==
  /\ pc = "parsed"
  /\ Len(pp.functions) = 2
  /\ \E p \in FnTokens : \A k \in 1..Len(hist.spans) : SpanStart(k) # p
  /\ \E j \in SpanStart(1)..SpanLast(1) : BraceDepth(pp.tokens, SpanStart(1), j) = 2

\* The text of a Let's annotation comments, from the claim: one line per value
\* the Let carries.
CommentLines(let) ==
  (IF IsNone(let.fields.entropy) THEN <<>>
   ELSE <<txt_entropy \o FloatStr(Val(let.fields.entropy)) \o <<")">>>>)
  \o
  (IF IsNone(let.fields.tag) THEN <<>>
   ELSE <<txt_tag \o Val(let.fields.tag) \o <<"\"", ")">>>>)

\* C8: the text emit_tisc gives for a Let is, line by line: the comment
\* ; @entropy(<value>) when the Let carries an entropy value, the comment
\* ; @tag("<value>") when it carries a tag value, the text of its expression, and
\* last STORE <name>.
C8_LetEmission ==
  (pc = "emitted" /\ Val(result).node_type = "Let") =>
    Lines(Val(tisc)) =
      CommentLines(Val(result))
        \o Lines(FmtOpt(emit_tisc(Val(result).fields.expr)))
        \o <<txt_STORE \o Val(result).fields.name>>

\* C9: every call of parse_program comes to an end, whatever the token list: it
\* returns the Program, or it stops with an exception, which is an IndexError or a
\* ValueError; no scan goes on forever.
C9_Terminates ==
  /\ <>(pc \in {"parsed", "error"})
  /\ [](pc = "error" => exc \in {"IndexError", "ValueError"})

\* C9, reached: parse_program has returned after every scan has run: a function
\* with parameters and a let statement in its body.
C9_Witness ==
  /\ pc = "parsed"
  /\ \E k \in 1..Len(pp.functions) :
       /\ pp.functions[k].params # <<>>
       /\ \E n \in 1..Len(pp.functions[k].body) : pp.functions[k].body[n].node_type = "Let"

\* The entries of a parameter window: from index i on, a token of kind IDENT
\* followed by a colon and a third token gives {name, type} and the next triple
\* starts three tokens on; any other token is passed over.
RECURSIVE MatchedParams(_, _)
MatchedParams(w, i) ==
  IF i >= Len(w) THEN <<>>
  ELSE IF /\ At(w, i)[1] = "IDENT"
          /\ HasIndex(w, i + 2)
          /\ At(w, i + 1)[1] = "COLON"
       THEN <<[name |-> At(w, i)[2], type |-> At(w, i + 2)[2]]>> \o MatchedParams(w, i + 3)
       ELSE MatchedParams(w, i + 1)

\* C10: the parameter scan never fails, and when it is over params holds exactly
\* the matched name : type entries of the window, in source order.
C10_ParamScan ==
  /\ ~(pc = "error" /\ hist.raised_at = "pf_param_scan")
  /\ pc = "pf_mid" => pf.params = MatchedParams(pf.param_tokens, 1)

=============================================================================
